---------------------------- MODULE Spec2Model ----------------------------
(***************************************************************************)
(* A model of the two trading bots of the repository:                      *)
(*                                                                         *)
(*   src/POL_EUR_trallingloss.py  make_request (the signed client with its *)
(*                                urllib3 Retry policy), the gateway       *)
(*                                wrappers and trading_bot (single shot:   *)
(*                                one buy, then a trailing-stop sell);     *)
(*   src/DASH_EURO_BOT.py         get_balances / place_order /             *)
(*                                get_current_price and the endless grid   *)
(*                                loop of main.                            *)
(*                                                                         *)
(* Five specifications share the module, one per program part:            *)
(*   SpecRequest  one make_request call, one step per transmitted request; *)
(*   SpecBot      one run of trading_bot, one step per remote call;        *)
(*   SpecMain     the loop of main, one step per phase of a cycle;         *)
(*   SpecTrend    one call of detect_trend on float arguments;             *)
(*   SpecGrid     one call of adjust_grid_levels on float arguments.       *)
(* The variables of the parts a specification does not run keep their      *)
(* initial values.                                                         *)
(*                                                                         *)
(* Numbers.  In the first three specifications Python floats are modelled  *)
(* by exact integers: every price and every balance is an integer number   *)
(* of thousandths (1000 = 1.0 EUR or 1.0 DASH).  Prices offered by the     *)
(* exchange are multiples of 100, so that price * 0.98, price * 0.99 and   *)
(* the 0.9 grid compression are exact.  Order amounts are quotients and    *)
(* are kept as fractions [num, den].  Python's None is the integer None    *)
(* (-1), which no price or balance equals.  Floating-point rounding is     *)
(* modelled in SpecTrend and SpecGrid, where the two pure functions of     *)
(* DASH_EURO_BOT.py are computed in a binary floating-point format with a  *)
(* short significand.                                                      *)
(***************************************************************************)
EXTENDS Integers, Sequences, FiniteSets, TLC

VARIABLES
    \* ---- make_request (POL_EUR_trallingloss.py) ----
    endpoint,        \* the endpoint argument of the running make_request call
    rq_pc,           \* "send": session.post is running; "done": make_request returned
    rq_total,        \* Retry.total still left (urllib3 counts it down per retry)
    rq_sent,         \* number of HTTP requests transmitted by this call
    rq_log,          \* what the server did to each request, in order
    rq_status,       \* status of the response handed back to make_request (0: none)
    rq_body,         \* body of that response
    rq_result,       \* "pending" | "body" (returned result) | "none" | "raised"
    \* ---- trading_bot (POL_EUR_trallingloss.py) ----
    bot_pc,          \* position of trading_bot
    balance,         \* get_balance(): available EUR, thousandths
    last_price,      \* ticker price read before the buy
    pair_limits,     \* [min_amount, min_value] or NoLimits
    BUY_AMOUNT,      \* the global BUY_AMOUNT, a fraction
    buy_price,       \* last_price * 0.99
    buy_order_id,    \* id returned for the buy order, None before
    highest_price,   \* highest price after buying
    bot_trailing_stop, \* trailing_stop of trading_bot, None until first set
    bot_current_price, \* current_price of the monitoring loop
    bot_orders,      \* order_create calls made by this run, in order
    buy_order,       \* what the last get_order_status poll returned, {} before
    polled,          \* prices the exchange reported to the monitoring loop (observer)
    poll_ok,         \* whether the last get_ticker of the loop reported a price (observer)
    \* ---- main (DASH_EURO_BOT.py) ----
    pc,              \* position inside the cycle of main
    trailing_stop,   \* trailing_stop of main, None when unset
    last_buy_price,  \* last_buy_price of main, None when unset
    historical_prices,
    grid_buy_levels,
    grid_sell_levels,
    current_price,
    trend,
    account_reply,   \* the exchange's reply to this cycle's account request
    balances,        \* the mapping get_balances returned
    eur_balance,
    dash_balance,
    max_buy_amount,
    placed,          \* place_order calls of the current cycle, in order
    cycles,          \* cycles started so far
    cycle_start,     \* [trailing_stop, last_buy_price] at the start of the cycle (observer)
    entry_high,      \* highest price fetched since last_buy_price was set (observer)
    fetched,         \* every price get_current_price has returned, in order (observer)
    \* ---- one call of detect_trend or adjust_grid_levels (DASH_EURO_BOT.py) ----
    fn_pc,           \* "idle" (no call) | "called" | "returned"
    call,            \* the arguments of the call
    returned         \* the value the call returned

rq_vars == <<endpoint, rq_pc, rq_total, rq_sent, rq_log, rq_status, rq_body, rq_result>>

bot_vars == <<bot_pc, balance, last_price, pair_limits, BUY_AMOUNT, buy_price,
              buy_order_id, highest_price, bot_trailing_stop, bot_current_price,
              bot_orders, buy_order, polled, poll_ok>>

main_vars == <<pc, trailing_stop, last_buy_price, historical_prices, grid_buy_levels,
               grid_sell_levels, current_price, trend, account_reply, balances,
               eur_balance, dash_balance, max_buy_amount, placed, cycles,
               cycle_start, entry_high, fetched>>

fn_vars == <<fn_pc, call, returned>>

vars == <<rq_vars, bot_vars, main_vars, fn_vars>>

\* Python's None, for the optional numbers of both bots.
None == 0 - 1

\* One unit of the fixed-point representation: 1000 thousandths.
Unit == 10 * 10 * 10

\* A Python dict is a function from its keys; {} is the function of no key.
EmptyDict == [k \in {} |-> 0]

\* dict.get(key, default)
Get(d, key, default) == IF key \in DOMAIN d THEN d[key] ELSE default

RECURSIVE GCD(_, _)
GCD(a, b) == IF b = 0 THEN a ELSE GCD(b, a % b)

\* A quotient of two floats, kept exact and in lowest terms: num / den
\* thousandths (den > 0).
Frac(num, den) == [num |-> num \div GCD(num, den), den |-> den \div GCD(num, den)]

FracLeq(a, b) == a.num * b.den <= b.num * a.den

FracMax(a, b) == IF FracLeq(b, a) THEN a ELSE b

FracMin(a, b) == IF FracLeq(a, b) THEN a ELSE b

Max(a, b) == IF a >= b THEN a ELSE b

\* Python truthiness of an optional float: None and 0.0 are false.
Truthy(x) == x # None /\ x # 0

(***************************************************************************)
(*                make_request: the retrying signed client                 *)
(***************************************************************************)

\* MAX_RETRIES = 5, handed to urllib3 as Retry(total=MAX_RETRIES).
MAX_RETRIES == 5

\* status_forcelist of the Retry strategy.
status_forcelist == {429, 500, 502, 503, 504}

\* The endpoints the gateway wrappers pass to make_request.
Endpoints == {"account", "order_create", "order_status", "order_cancel", "ticker", "info"}

\* Statuses the modelled server answers with; 0 in rq_log is a transport
\* failure (connection reset, timeout) with no response at all.
ServerStatuses == {200, 201, 404, 429, 503}

TransportFailure == 0

\* Response bodies: json says how the text parses ("object"; "array" for any
\* JSON value that is not an object; "invalid" for text that is no JSON) and
\* value is the parsed object.
JsonObject(v) == [json |-> "object", value |-> v]

Bodies ==
    { JsonObject([success |-> TRUE]),
      JsonObject([success |-> FALSE, error |-> "rejected"]),
      JsonObject([error |-> "rejected"]),
      [json |-> "array", value |-> EmptyDict],
      [json |-> "invalid", value |-> EmptyDict] }

NoBody == [json |-> "none", value |-> EmptyDict]

\* A variant that hands urllib3 one retry less: Retry(total=MAX_RETRIES - 1).
RetryTotalOneLess == MAX_RETRIES - 1

\* Line 43: total=MAX_RETRIES, the number of retries urllib3 may make.
RetryTotal == MAX_RETRIES

\* Retry.increment: every retried failure takes one from total.
Increment(total) == total - 1

\* Retry.is_exhausted: the budget is spent once total has gone below zero, so
\* Retry(total=n) allows the first request and n retries.
IsExhausted(total) == total < 0

\* A variant in which POST is not among the allowed methods: no status is
\* retried.
IsRetryNever(status) == FALSE

\* Retry.is_retry for a POST (allowed_methods=["POST"]): a status of the
\* force list is retried.
IsRetry(status) == status \in status_forcelist

\* response.raise_for_status(): raises HTTPError for a 4xx or 5xx status only.
RaisesForStatus(status) == status >= 400 /\ status < 600

\* Lines 53-62 for a response that session.post handed back: the possible
\* outcomes of make_request.  response.json() on text that is no JSON raises
\* requests' JSONDecodeError (a RequestException, caught: None) in current
\* requests and a plain ValueError (not caught) in older ones; result.get on a
\* JSON value that is no object raises AttributeError, which is not caught.
ReturnOutcomes(status, body) ==
    IF RaisesForStatus(status) THEN {"none"}
    ELSE IF body.json = "invalid" THEN {"none", "raised"}
    ELSE IF body.json # "object" THEN {"raised"}
    ELSE IF Get(body.value, "success", FALSE) = TRUE THEN {"body"}
    ELSE {"none"}

RequestInit ==
    /\ endpoint \in Endpoints
    /\ rq_pc = "send"
    /\ rq_total = RetryTotal
    /\ rq_sent = 0
    /\ rq_log = <<>>
    /\ rq_status = 0
    /\ rq_body = NoBody
    /\ rq_result = "pending"

\* One request is transmitted and fails below HTTP (connection reset, timeout):
\* urllib3 retries while the budget lasts, then raises MaxRetryError, which
\* requests turns into a RequestException: make_request returns None.
SendTransportFailure ==
    /\ rq_pc = "send"
    /\ rq_sent' = rq_sent + 1
    /\ rq_log' = Append(rq_log, TransportFailure)
    /\ rq_total' = Increment(rq_total)
    /\ IF IsExhausted(rq_total')
       THEN rq_pc' = "done" /\ rq_result' = "none"
       ELSE rq_pc' = "send" /\ rq_result' = "pending"
    /\ UNCHANGED <<endpoint, rq_status, rq_body>>
    /\ UNCHANGED <<bot_vars, main_vars, fn_vars>>

\* One request is transmitted and answered with a status of the force list.
SendRetryableStatus ==
    /\ rq_pc = "send"
    /\ \E status \in ServerStatuses :
        /\ IsRetry(status)
        /\ rq_sent' = rq_sent + 1
        /\ rq_log' = Append(rq_log, status)
        /\ rq_total' = Increment(rq_total)
        /\ IF IsExhausted(rq_total')
           THEN rq_pc' = "done" /\ rq_result' = "none"
           ELSE rq_pc' = "send" /\ rq_result' = "pending"
    /\ UNCHANGED <<endpoint, rq_status, rq_body>>
    /\ UNCHANGED <<bot_vars, main_vars, fn_vars>>

\* One request is transmitted and answered with any other status: session.post
\* returns the response and lines 53-62 decide what make_request returns.
SendFinalStatus ==
    /\ rq_pc = "send"
    /\ \E status \in ServerStatuses, body \in Bodies :
        /\ ~IsRetry(status)
        /\ rq_sent' = rq_sent + 1
        /\ rq_log' = Append(rq_log, status)
        /\ rq_status' = status
        /\ rq_body' = body
        /\ rq_pc' = "done"
        /\ rq_result' \in ReturnOutcomes(status, body)
    /\ UNCHANGED <<endpoint, rq_total>>
    /\ UNCHANGED <<bot_vars, main_vars, fn_vars>>

RequestNext == SendTransportFailure \/ SendRetryableStatus \/ SendFinalStatus

(***************************************************************************)
(*        The gateway wrappers and trading_bot (POL_EUR_trallingloss)      *)
(***************************************************************************)

\* What one make_request call hands to its wrapper: the parsed body
\* (outcome "body"), None (outcome "none"), or an exception that make_request
\* does not catch (outcome "raised").
Returned(v) == [outcome |-> "body", value |-> v]

NoneResult == [outcome |-> "none", value |-> EmptyDict]

RaisedResult == [outcome |-> "raised", value |-> EmptyDict]

PAIR == "POL_EUR"

\* TRAILING_STOP_PERCENTAGE = 2 (percent)
TRAILING_STOP_PERCENTAGE == 2

\* Prices the exchange reports for POL_EUR, in thousandths of EUR.
BotPrices == {900, 1000, 1100, 1200}

\* EUR amounts the account may hold as available, in thousandths.
BotFunds == {0, 5000}

\* Limits the exchange may declare for the pair, in thousandths.
BotLimits == { [min_amount |-> 100, min_value |-> 500],
               [min_amount |-> 1000, min_value |-> 500] }

NoLimits == [min_amount |-> None, min_value |-> None]

\* The id the exchange gives an accepted order.
OrderId == 7

\* What make_request("POST", "account") may return.
AccountResults ==
    { Returned([success |-> TRUE,
                balances |-> [EUR |-> [total |-> a, available |-> a]]]) : a \in BotFunds }
    \cup {NoneResult, RaisedResult}

\* What make_request("POST", "ticker", ...) may return; the last member is a
\* successful reply that does not list the pair.
TickerResults ==
    { Returned([success |-> TRUE, pairs |-> [POL_EUR |-> [last |-> p]]]) : p \in BotPrices }
    \cup { Returned([success |-> TRUE, pairs |-> EmptyDict]), NoneResult, RaisedResult }

InfoResults ==
    { Returned([success |-> TRUE, pairs |-> [POL_EUR |-> l]]) : l \in BotLimits }
    \cup {NoneResult, RaisedResult}

OrderCreateResults ==
    { Returned([success |-> TRUE, order_id |-> OrderId]), NoneResult, RaisedResult }

OrderStatusResults ==
    { Returned([success |-> TRUE, order |-> [status |-> s]]) :
        s \in {"success", "processing", "canceled"} }
    \cup {NoneResult, RaisedResult}

\* get_balance(): the balances payload, {} when make_request returned None.
get_balance(response) ==
    IF response.outcome = "body" THEN Get(response.value, "balances", EmptyDict)
    ELSE EmptyDict

\* place_order(): the order id, None when make_request returned None.
bot_place_order(response) ==
    IF response.outcome = "body" THEN Get(response.value, "order_id", None)
    ELSE None

\* get_order_status(): the order mapping, {} on failure.
get_order_status(response) ==
    IF response.outcome = "body" THEN Get(response.value, "order", EmptyDict)
    ELSE EmptyDict

\* get_ticker(pair): the pair's ticker mapping, {} on failure or absent pair.
get_ticker(response, pair) ==
    IF response.outcome = "body"
    THEN Get(Get(response.value, "pairs", EmptyDict), pair, EmptyDict)
    ELSE EmptyDict

\* get_pair_limits(pair): the pair's limits, None on failure.
get_pair_limits(response, pair) ==
    IF response.outcome = "body" /\ Get(response.value, "success", FALSE) = TRUE
    THEN response.value["pairs"][pair]
    ELSE NoLimits

\* float(ticker.get("last", 0))
TickerPrice(ticker) == Get(ticker, "last", 0)

\* highest_price * (1 - TRAILING_STOP_PERCENTAGE / 100)
BotStopOf(highest) == (highest * (100 - TRAILING_STOP_PERCENTAGE)) \div 100

\* A variant that raises the high on every poll, also when the price fell.
UpdateHighAlways(price, highest, stop) ==
    [highest |-> price, stop |-> BotStopOf(price)]

\* Lines 204-207: a new high moves highest_price and the trailing stop.
UpdateHigh(price, highest, stop) ==
    IF price > highest
    THEN [highest |-> price, stop |-> BotStopOf(price)]
    ELSE [highest |-> highest, stop |-> stop]

\* Line 210: `if trailing_stop and current_price <= trailing_stop`
StopTriggered(price, stop) == Truthy(stop) /\ price <= stop

BotInit ==
    /\ bot_pc = "get_balance"
    /\ balance = EmptyDict
    /\ last_price = None
    /\ pair_limits = NoLimits
    /\ BUY_AMOUNT = Frac(100, 1)
    /\ buy_price = None
    /\ buy_order_id = None
    /\ highest_price = None
    /\ bot_trailing_stop = None
    /\ bot_current_price = None
    /\ bot_orders = <<>>
    /\ buy_order = EmptyDict
    /\ polled = {}
    /\ poll_ok = FALSE

\* Line 143: balance = get_balance()
FetchBalance ==
    /\ bot_pc = "get_balance"
    /\ \E response \in AccountResults :
        IF response.outcome = "raised"
        THEN bot_pc' = "done" /\ UNCHANGED balance
        ELSE bot_pc' = "get_ticker" /\ balance' = get_balance(response)
    /\ UNCHANGED <<last_price, pair_limits, BUY_AMOUNT, buy_price, buy_order_id,
                   highest_price, bot_trailing_stop, bot_current_price, bot_orders,
                   buy_order, polled, poll_ok>>
    /\ UNCHANGED <<rq_vars, main_vars, fn_vars>>

\* Lines 147-148: the ticker read that fixes last_price.
FetchTicker ==
    /\ bot_pc = "get_ticker"
    /\ \E response \in TickerResults :
        IF response.outcome = "raised"
        THEN bot_pc' = "done" /\ UNCHANGED last_price
        ELSE /\ bot_pc' = "get_pair_limits"
             /\ last_price' = TickerPrice(get_ticker(response, PAIR))
    /\ UNCHANGED <<balance, pair_limits, BUY_AMOUNT, buy_price, buy_order_id,
                   highest_price, bot_trailing_stop, bot_current_price, bot_orders,
                   buy_order, polled, poll_ok>>
    /\ UNCHANGED <<rq_vars, main_vars, fn_vars>>

\* Lines 152-175: the limits, the sizing of BUY_AMOUNT and the balance check.
\* min_value / last_price raises ZeroDivisionError when the ticker gave no
\* price (last_price = 0.0); the handler of line 221 ends the run.
FetchPairLimits ==
    /\ bot_pc = "get_pair_limits"
    /\ \E response \in InfoResults :
        LET limits == get_pair_limits(response, PAIR)
            amount == FracMax(Frac(limits.min_amount, 1),
                              Frac(limits.min_value * Unit, last_price))
            price  == (last_price * 99) \div 100
            available == Get(Get(balance, "EUR", EmptyDict), "available", 0)
        IN  IF response.outcome = "raised" \/ limits = NoLimits
            THEN bot_pc' = "done" /\ UNCHANGED <<pair_limits, BUY_AMOUNT, buy_price>>
            ELSE IF last_price = 0
            THEN /\ bot_pc' = "done"
                 /\ pair_limits' = limits
                 /\ UNCHANGED <<BUY_AMOUNT, buy_price>>
            ELSE /\ pair_limits' = limits
                 /\ BUY_AMOUNT' = amount
                 /\ buy_price' = price
                 \* available_balance < BUY_AMOUNT * buy_price
                 /\ IF available * amount.den * Unit < amount.num * price
                    THEN bot_pc' = "done"
                    ELSE bot_pc' = "place_buy"
    /\ UNCHANGED <<balance, last_price, buy_order_id, highest_price,
                   bot_trailing_stop, bot_current_price, bot_orders, buy_order,
                   polled, poll_ok>>
    /\ UNCHANGED <<rq_vars, main_vars, fn_vars>>

\* Lines 177-183: the buy order.
PlaceBuy ==
    /\ bot_pc = "place_buy"
    /\ \E response \in OrderCreateResults :
        LET id == bot_place_order(response) IN
        /\ bot_orders' = Append(bot_orders,
               [action |-> "buy", amount |-> BUY_AMOUNT, price |-> buy_price])
        /\ IF response.outcome = "raised"
           THEN bot_pc' = "done" /\ UNCHANGED buy_order_id
           ELSE /\ buy_order_id' = id
                /\ bot_pc' = IF Truthy(id) THEN "wait_fill" ELSE "done"
    /\ UNCHANGED <<balance, last_price, pair_limits, BUY_AMOUNT, buy_price,
                   highest_price, bot_trailing_stop, bot_current_price, buy_order,
                   polled, poll_ok>>
    /\ UNCHANGED <<rq_vars, main_vars, fn_vars>>

\* A variant that leaves the wait loop on whatever the poll returned.
BuyFilledAlways(order) == TRUE

\* Line 188: buy_order.get("status") == "success"
BuyFilled(order) == Get(order, "status", "") = "success"

\* Lines 186-195: one poll of the buy order; "success" starts the monitoring
\* with trailing_stop = None and highest_price = last_price, anything else
\* (also an order the exchange reports as canceled, or a failed call) sleeps
\* and polls again.
PollBuyOrder ==
    /\ bot_pc = "wait_fill"
    /\ \E response \in OrderStatusResults :
        LET order == get_order_status(response) IN
        IF response.outcome = "raised"
        THEN bot_pc' = "done" /\ UNCHANGED <<buy_order, highest_price, bot_trailing_stop>>
        ELSE /\ buy_order' = order
             /\ IF BuyFilled(order)
                THEN /\ bot_pc' = "monitor"
                     /\ bot_trailing_stop' = None
                     /\ highest_price' = last_price
                ELSE bot_pc' = "wait_fill" /\ UNCHANGED <<highest_price, bot_trailing_stop>>
    /\ UNCHANGED <<balance, last_price, pair_limits, BUY_AMOUNT, buy_price,
                   buy_order_id, bot_current_price, bot_orders, polled, poll_ok>>
    /\ UNCHANGED <<rq_vars, main_vars, fn_vars>>

\* Lines 197-219: one iteration of the monitoring loop.  What place_order
\* returns for the sell only selects the message printed before the break.
MonitorPoll ==
    /\ bot_pc = "monitor"
    /\ \E response \in TickerResults :
        LET ticker == get_ticker(response, PAIR)
            price  == TickerPrice(ticker)
            new    == UpdateHigh(price, highest_price, bot_trailing_stop)
        IN  IF response.outcome = "raised"
            THEN /\ bot_pc' = "done"
                 /\ UNCHANGED <<highest_price, bot_trailing_stop, bot_current_price,
                                bot_orders, polled, poll_ok>>
            ELSE /\ bot_current_price' = price
                 /\ polled' = IF "last" \in DOMAIN ticker THEN polled \cup {price} ELSE polled
                 /\ poll_ok' = ("last" \in DOMAIN ticker)
                 /\ highest_price' = new.highest
                 /\ bot_trailing_stop' = new.stop
                 /\ IF StopTriggered(price, new.stop)
                    THEN /\ bot_orders' = Append(bot_orders,
                               [action |-> "sell", amount |-> BUY_AMOUNT, price |-> price])
                         /\ bot_pc' = "done"
                    ELSE /\ bot_pc' = "monitor"
                         /\ UNCHANGED bot_orders
    /\ UNCHANGED <<balance, last_price, pair_limits, BUY_AMOUNT, buy_price,
                   buy_order_id, buy_order>>
    /\ UNCHANGED <<rq_vars, main_vars, fn_vars>>

BotNext ==
    \/ FetchBalance
    \/ FetchTicker
    \/ FetchPairLimits
    \/ PlaceBuy
    \/ PollBuyOrder
    \/ MonitorPoll

(***************************************************************************)
(*                  The grid engine: main of DASH_EURO_BOT                 *)
(***************************************************************************)

SYMBOL == "DASH_EUR"

\* BALANCE_THRESHOLD = 0.001
BALANCE_THRESHOLD == 1

\* RISK_PER_TRADE = 0.01
RISK_PER_TRADE == 10

\* TRAILING_STOP_PERCENT = 0.02
TRAILING_STOP_PERCENT == 20

\* compression_factor=0.9 of lines 176-177
COMPRESSION_FACTOR == 900

\* The history keeps the last 100 prices (line 170).
HISTORY_LIMIT == 100

\* short_window=10, long_window=50: the defaults of detect_trend.
SHORT_WINDOW == 10

LONG_WINDOW == 50

INITIAL_GRID_BUY_LEVELS ==
    <<18000, 15000, 16000, 17000, 19000, 20000, 21000, 22500, 23000, 23500, 24000, 24100>>

INITIAL_GRID_SELL_LEVELS ==
    <<150000, 100000, 120000, 80000, 70000, 60000, 50000, 45000, 42000, 41000,
      39000, 38000, 37000, 36000, 35000, 34000, 33000, 32000, 31000, 30000, 28000, 27000>>

\* Number of cycles a run of the model starts.
MaxCycles == 3

\* Prices the exchange reports for DASH_EUR, in thousandths of EUR.
MainPrices == {0, 19500, 19800, 20000, 30000, 45000}

\* The histories main may hold when the model starts: none, or the given
\* number of cycles that all fetched WarmPrice while the account was empty
\* (such cycles place no order and leave trailing_stop and last_buy_price unset).
WarmLengths == {0, 49, 99}

WarmPrice == 20 * Unit

\* Totals the account may hold, in thousandths.
EurTotals == {0, 10000}

DashTotals == {0, 2000}

\* A reply of the exchange: status 0 stands for a transport failure, where
\* requests.post raises instead of returning a response.
Reply(status, body) == [status |-> status, body |-> body]

FailedReplies ==
    { Reply(200, JsonObject([success |-> FALSE, error |-> "rejected"])),
      Reply(503, JsonObject([success |-> FALSE, error |-> "unavailable"])),
      Reply(200, [json |-> "invalid", value |-> EmptyDict]),
      Reply(0, NoBody) }

\* The last member is a successful reply that does not list the pair.
MainTickerReplies ==
    { Reply(200, JsonObject([success |-> TRUE, pairs |-> [DASH_EUR |-> [last |-> p]]])) :
        p \in MainPrices }
    \cup FailedReplies
    \cup { Reply(200, JsonObject([success |-> TRUE, pairs |-> EmptyDict])) }

\* The account reply as the API gives it (the mapping under "balances") and
\* a reply that carries the currencies at the top level.
DocumentedAccount(e, d) ==
    JsonObject([success |-> TRUE,
                balances |-> [EUR  |-> [total |-> e, available |-> e],
                              DASH |-> [total |-> d, available |-> d]]])

FlatAccount(e, d) ==
    JsonObject([success |-> TRUE,
                EUR  |-> [total |-> e, available |-> e],
                DASH |-> [total |-> d, available |-> d]])

MainAccountReplies ==
    { Reply(200, DocumentedAccount(e, d)) : e \in EurTotals \ {0}, d \in DashTotals \ {0} }
    \cup { Reply(200, FlatAccount(e, d)) : e \in EurTotals, d \in DashTotals }
    \cup FailedReplies

MainOrderReplies ==
    { Reply(200, JsonObject([success |-> TRUE, order_id |-> OrderId])) } \cup FailedReplies

\* requests.post raises on a transport failure and response.json() raises on
\* a 200 reply whose text is no JSON.
ReplyRaises(reply) ==
    reply.status = 0 \/ (reply.status = 200 /\ reply.body.json # "object")

\* The exception that does so: requests' ConnectionError, or the
\* JSONDecodeError of response.json().
RaisedBy(reply) == IF reply.status = 0 THEN "ConnectionError" ELSE "JSONDecodeError"

\* The exceptions a cycle of main can raise; all are subclasses of Exception.
ExceptionClasses == {"ConnectionError", "JSONDecodeError", "KeyError", "ZeroDivisionError"}

\* A variant whose handler is `except requests.exceptions.RequestException`,
\* as in make_request of the other bot.
CaughtRequestErrorsOnly(exception) == exception \in {"ConnectionError", "JSONDecodeError"}

\* Line 214: `except Exception as e` catches every subclass of Exception.
Caught(exception) == exception \in ExceptionClasses

\* Where an exception raised inside the try block of a cycle takes main: to
\* the handler of lines 214-217, or out of main when no handler catches it.
Handler(exception) == IF Caught(exception) THEN "except" ELSE "propagated"

\* `response.json() if response.status_code == 200 else {}`
JsonOr200(reply) == IF reply.status = 200 THEN reply.body.value ELSE EmptyDict

\* The exchange took the order: status 200 and success true.
Accepted(reply) ==
    reply.status = 200 /\ reply.body.json = "object"
    /\ Get(reply.body.value, "success", FALSE) = TRUE

\* get_balances(): the whole parsed reply, {} unless the status is 200.
get_balances(reply) == JsonOr200(reply)

\* place_order(): the whole parsed reply, {} unless the status is 200.
place_order(reply) == JsonOr200(reply)

\* Line 106: data['pairs'][SYMBOL]['last'] raises KeyError when a successful
\* reply does not list the pair.
PairMissing(reply) ==
    LET data == JsonOr200(reply) IN
    Get(data, "success", FALSE) = TRUE /\ SYMBOL \notin DOMAIN Get(data, "pairs", EmptyDict)

\* get_current_price(): the pair's last price, None unless success.
get_current_price(reply) ==
    LET data == JsonOr200(reply) IN
    IF Get(data, "success", FALSE) = TRUE THEN data["pairs"][SYMBOL]["last"] ELSE None

\* calculate_position_size: (balance * risk_percentage) / price
calculate_position_size(balance_, risk_percentage, price) ==
    Frac(balance_ * risk_percentage, price)

\* adjust_grid_levels: every level moved towards the price, sorted ascending.
adjust_grid_levels(price, initial_levels, compression_factor) ==
    SortSeq([i \in 1..Len(initial_levels) |->
                price + ((initial_levels[i] - price) * compression_factor) \div Unit],
            LAMBDA a, b : a < b)

RECURSIVE Sum(_)
Sum(s) == IF s = <<>> THEN 0 ELSE Head(s) + Sum(Tail(s))

\* prices[-n:]
LastN(prices, n) == SubSeq(prices, Max(1, Len(prices) - n + 1), Len(prices))

\* detect_trend: SMA crossover; the two means are compared exactly.
detect_trend(prices, short_window, long_window) ==
    IF Len(prices) < long_window THEN "neutral"
    ELSE LET short_sum == Sum(LastN(prices, short_window))
             long_sum  == Sum(LastN(prices, long_window))
         IN  IF short_sum * long_window > long_sum * short_window THEN "up"
             ELSE IF short_sum * long_window < long_sum * short_window THEN "down"
             ELSE "neutral"

\* A variant that drops the newest price instead of the oldest (pop() for
\* pop(0)).
RecordPriceDropNewest(history, price) ==
    LET appended == Append(history, price) IN
    IF Len(appended) > HISTORY_LIMIT THEN SubSeq(appended, 1, Len(appended) - 1)
    ELSE appended

\* Lines 168-171: append, then drop the oldest beyond the limit.
RecordPrice(history, price) ==
    LET appended == Append(history, price) IN
    IF Len(appended) > HISTORY_LIMIT THEN Tail(appended) ELSE appended

\* Line 187: some buy level at or above the price, with EUR to spend.
BuyLevelReached(levels, price, eur) ==
    \E i \in 1..Len(levels) : price <= levels[i] /\ eur > BALANCE_THRESHOLD

\* Line 206: some sell level at or below the price, with DASH to sell.
SellLevelReached(levels, price, dash) ==
    \E i \in 1..Len(levels) : price >= levels[i] /\ dash > BALANCE_THRESHOLD

\* current_price * (1 - TRAILING_STOP_PERCENT)
StopOf(price) == (price * (Unit - TRAILING_STOP_PERCENT)) \div Unit

\* Lines 195-196: the stop is recomputed from the current price whenever it is
\* unset or the price is above it.
NextTrailingStop(price, stop) ==
    IF stop = None \/ price > stop THEN StopOf(price) ELSE stop

Order(type, amount, price, reply) ==
    [type |-> type, amount |-> amount, price |-> price,
     accepted |-> Accepted(reply), raised |-> ReplyRaises(reply)]

MainInitWith(history) ==
    /\ pc = "fetch_price"
    /\ trailing_stop = None
    /\ last_buy_price = None
    /\ historical_prices = history
    /\ grid_buy_levels = INITIAL_GRID_BUY_LEVELS
    /\ grid_sell_levels = INITIAL_GRID_SELL_LEVELS
    /\ current_price = None
    /\ trend = "neutral"
    /\ account_reply = Reply(0, NoBody)
    /\ balances = EmptyDict
    /\ eur_balance = 0
    /\ dash_balance = 0
    /\ max_buy_amount = Frac(0, 1)
    /\ placed = <<>>
    /\ cycles = 0
    /\ cycle_start = [trailing_stop |-> None, last_buy_price |-> None]
    /\ entry_high = None
    /\ fetched = history

MainInit == \E n \in WarmLengths : MainInitWith([i \in 1..n |-> WarmPrice])

\* The positions at which the loop is about to start a cycle: the entry, the
\* sleeps of lines 165 and 213 and the handler's sleep of line 217.  An
\* exception that left main ("propagated") starts none.
AtCycleStart == pc \in {"fetch_price", "sleep_retry", "sleep", "except"}

\* Lines 162-177: the price fetch, the history, the trend and the grids.
FetchPrice ==
    /\ AtCycleStart
    /\ cycles < MaxCycles
    /\ cycles' = cycles + 1
    /\ placed' = <<>>
    /\ cycle_start' = [trailing_stop |-> trailing_stop, last_buy_price |-> last_buy_price]
    /\ \E reply \in MainTickerReplies :
        IF ReplyRaises(reply) \/ PairMissing(reply)
        THEN /\ pc' = Handler(IF ReplyRaises(reply) THEN RaisedBy(reply) ELSE "KeyError")
             /\ UNCHANGED <<current_price, historical_prices, trend, grid_buy_levels,
                            grid_sell_levels, entry_high, fetched>>
        ELSE LET price == get_current_price(reply) IN
             IF price = None
             THEN /\ pc' = "sleep_retry"
                  /\ current_price' = None
                  /\ UNCHANGED <<historical_prices, trend, grid_buy_levels,
                                 grid_sell_levels, entry_high, fetched>>
             ELSE /\ pc' = "fetch_balances"
                  /\ current_price' = price
                  /\ fetched' = Append(fetched, price)
                  /\ historical_prices' = RecordPrice(historical_prices, price)
                  /\ trend' = detect_trend(historical_prices', SHORT_WINDOW, LONG_WINDOW)
                  /\ grid_buy_levels' =
                        adjust_grid_levels(price, INITIAL_GRID_BUY_LEVELS, COMPRESSION_FACTOR)
                  /\ grid_sell_levels' =
                        adjust_grid_levels(price, INITIAL_GRID_SELL_LEVELS, COMPRESSION_FACTOR)
                  /\ entry_high' = IF last_buy_price = None THEN None
                                   ELSE Max(entry_high, price)
    /\ UNCHANGED <<trailing_stop, last_buy_price, account_reply, balances,
                   eur_balance, dash_balance, max_buy_amount>>
    /\ UNCHANGED <<rq_vars, bot_vars, fn_vars>>

\* Lines 179-183: the balances and the position size.  A price of 0.0 makes
\* calculate_position_size raise ZeroDivisionError.
FetchBalances ==
    /\ pc = "fetch_balances"
    /\ \E reply \in MainAccountReplies :
        /\ account_reply' = reply
        /\ IF ReplyRaises(reply)
           THEN /\ pc' = Handler(RaisedBy(reply))
                /\ UNCHANGED <<balances, eur_balance, dash_balance, max_buy_amount>>
           ELSE LET got  == get_balances(reply)
                    eur  == Get(Get(got, "EUR", EmptyDict), "total", 0)
                    dash == Get(Get(got, "DASH", EmptyDict), "total", 0)
                IN  /\ balances' = got
                    /\ eur_balance' = eur
                    /\ dash_balance' = dash
                    /\ IF current_price = 0
                       THEN pc' = Handler("ZeroDivisionError") /\ UNCHANGED max_buy_amount
                       ELSE /\ pc' = "buy"
                            /\ max_buy_amount' =
                                 calculate_position_size(eur, RISK_PER_TRADE, current_price)
    /\ UNCHANGED <<trailing_stop, last_buy_price, historical_prices, grid_buy_levels,
                   grid_sell_levels, current_price, trend, placed, cycles, cycle_start,
                   entry_high, fetched>>
    /\ UNCHANGED <<rq_vars, bot_vars, fn_vars>>

\* Lines 185-192: the grid buy.  The value place_order returns is not read.
BuyPhase ==
    /\ pc = "buy"
    /\ IF trend # "down" /\ BuyLevelReached(grid_buy_levels, current_price, eur_balance)
       THEN \E reply \in MainOrderReplies :
            LET buy_amount == FracMin(max_buy_amount, Frac(eur_balance * Unit, current_price))
            IN  /\ placed' = Append(placed, Order("buy", buy_amount, current_price, reply))
                /\ IF ReplyRaises(reply)
                   THEN pc' = Handler(RaisedBy(reply)) /\ UNCHANGED <<last_buy_price, entry_high>>
                   ELSE /\ pc' = "trail"
                        /\ last_buy_price' = current_price
                        /\ entry_high' = IF last_buy_price = None THEN current_price
                                         ELSE entry_high
       ELSE pc' = "trail" /\ UNCHANGED <<placed, last_buy_price, entry_high>>
    /\ UNCHANGED <<trailing_stop, historical_prices, grid_buy_levels, grid_sell_levels,
                   current_price, trend, account_reply, balances, eur_balance,
                   dash_balance, max_buy_amount, cycles, cycle_start, fetched>>
    /\ UNCHANGED <<rq_vars, bot_vars, fn_vars>>

\* Lines 194-202: the trailing stop and its sell.
TrailPhase ==
    /\ pc = "trail"
    /\ IF Truthy(last_buy_price) /\ dash_balance > BALANCE_THRESHOLD
       THEN LET stop == NextTrailingStop(current_price, trailing_stop) IN
            IF current_price <= stop
            THEN \E reply \in MainOrderReplies :
                 /\ placed' = Append(placed,
                        Order("sell", Frac(dash_balance, 1), current_price, reply))
                 /\ IF ReplyRaises(reply)
                    THEN /\ pc' = Handler(RaisedBy(reply))
                         /\ trailing_stop' = stop
                         /\ UNCHANGED <<last_buy_price, entry_high>>
                    ELSE /\ pc' = "grid_sell"
                         /\ trailing_stop' = None
                         /\ last_buy_price' = None
                         /\ entry_high' = None
            ELSE /\ pc' = "grid_sell"
                 /\ trailing_stop' = stop
                 /\ UNCHANGED <<placed, last_buy_price, entry_high>>
       ELSE pc' = "grid_sell" /\ UNCHANGED <<placed, trailing_stop, last_buy_price, entry_high>>
    /\ UNCHANGED <<historical_prices, grid_buy_levels, grid_sell_levels, current_price,
                   trend, account_reply, balances, eur_balance, dash_balance,
                   max_buy_amount, cycles, cycle_start, fetched>>
    /\ UNCHANGED <<rq_vars, bot_vars, fn_vars>>

\* Lines 204-213: the grid sell, then the sleep that ends the cycle.
GridSellPhase ==
    /\ pc = "grid_sell"
    /\ IF trend # "up" /\ SellLevelReached(grid_sell_levels, current_price, dash_balance)
       THEN \E reply \in MainOrderReplies :
            /\ placed' = Append(placed,
                   Order("sell", Frac(dash_balance, 1), current_price, reply))
            /\ IF ReplyRaises(reply)
               THEN /\ pc' = Handler(RaisedBy(reply))
                    /\ UNCHANGED <<trailing_stop, last_buy_price, entry_high>>
               ELSE /\ pc' = "sleep"
                    /\ trailing_stop' = None
                    /\ last_buy_price' = None
                    /\ entry_high' = None
       ELSE pc' = "sleep" /\ UNCHANGED <<placed, trailing_stop, last_buy_price, entry_high>>
    /\ UNCHANGED <<historical_prices, grid_buy_levels, grid_sell_levels, current_price,
                   trend, account_reply, balances, eur_balance, dash_balance,
                   max_buy_amount, cycles, cycle_start, fetched>>
    /\ UNCHANGED <<rq_vars, bot_vars, fn_vars>>

MainNext == FetchPrice \/ FetchBalances \/ BuyPhase \/ TrailPhase \/ GridSellPhase

(***************************************************************************)
(*      detect_trend and adjust_grid_levels in floating-point arithmetic   *)
(*                                                                         *)
(* A Python float is an IEEE-754 binary64 number: a significand of 53 bits *)
(* times a power of two, every operation rounded to the nearest such       *)
(* number, ties to the even significand.  The model keeps the format and   *)
(* the rounding rule and shortens the significand to Precision bits, so    *)
(* that the roundings that binary64 makes at the 53rd bit show up on small *)
(* numbers.  A float is held as an integer count of quanta, the smallest   *)
(* step of the format; One quanta make 1.0.                                *)
(***************************************************************************)

\* Significant bits of the modelled float format (53 in CPython).
Precision == 3

RECURSIVE Pow2(_)
Pow2(n) == IF n = 0 THEN 1 ELSE 2 * Pow2(n - 1)

\* 1.0, far enough above the quantum that the prices, their differences and
\* the products with a factor of at least 1/8 are normal numbers.
One == Pow2(2 * Precision)

\* The integer nearest to num / den, a tie going to the even one (num >= 0,
\* den > 0).
NearestEven(num, den) ==
    LET q == num \div den
        r == num % den
    IN  IF 2 * r < den THEN q
        ELSE IF 2 * r > den THEN q + 1
        ELSE IF q % 2 = 0 THEN q ELSE q + 1

\* The float nearest to num / den >= 0: below 2^Precision quanta the floats
\* are the integers; from there on the step doubles with every binade.
RECURSIVE RoundMagnitude(_, _)
RoundMagnitude(num, den) ==
    IF num < Pow2(Precision) * den THEN NearestEven(num, den)
    ELSE 2 * RoundMagnitude(num, 2 * den)

\* Round to nearest, ties to even: the rounding of every float operation.
Round(num, den) ==
    IF num < 0 THEN 0 - RoundMagnitude(0 - num, den) ELSE RoundMagnitude(num, den)

\* n quanta are a float.
Representable(n) == Round(n, 1) = n

FloatAdd(a, b) == Round(a + b, 1)

FloatSub(a, b) == Round(a - b, 1)

FloatMul(a, b) == Round(a * b, One)

\* a / n for a float a and an int n (a window size)
FloatDivInt(a, n) == Round(a, n)

\* sum(prices): the partial sums are floats, each addition rounds.  (From
\* CPython 3.12 on sum() carries a compensation term and rounds once more at
\* the end; the sum is then still a rounded one.)
RECURSIVE FloatSum(_)
FloatSum(s) ==
    IF s = <<>> THEN 0
    ELSE FloatAdd(FloatSum(SubSeq(s, 1, Len(s) - 1)), s[Len(s)])

\* detect_trend on floats.
detect_trend_float(prices, short_window, long_window) ==
    IF Len(prices) < long_window THEN "neutral"
    ELSE LET short_sma == FloatDivInt(FloatSum(LastN(prices, short_window)), short_window)
             long_sma  == FloatDivInt(FloatSum(LastN(prices, long_window)), long_window)
         IN  IF short_sma > long_sma THEN "up"
             ELSE IF short_sma < long_sma THEN "down"
             ELSE "neutral"

\* Line 127: current_price + (level - current_price) * compression_factor
adjusted_level(price, level, compression_factor) ==
    FloatAdd(price, FloatMul(FloatSub(level, price), compression_factor))

\* adjust_grid_levels on floats: lines 126-130.
adjust_grid_levels_float(price, initial_levels, compression_factor) ==
    SortSeq([i \in 1..Len(initial_levels) |->
                adjusted_level(price, initial_levels[i], compression_factor)],
            LAMBDA a, b : a < b)

\* The floats from lo to hi quanta.
Floats(lo, hi) == {n \in lo..hi : Representable(n)}

\* Sequences over S of at most n elements.
SeqUpTo(S, n) == UNION {[1..k -> S] : k \in 0..n}

\* The calls of detect_trend the model makes: prices between 1.0 and 2.0,
\* histories of up to MaxHistory prices, windows of 1 to MaxHistory samples.
MaxHistory == 5

TrendPrices == {n \in Floats(One, 2 * One) : n % (One \div 4) = 0}

TrendCalls ==
    [prices : SeqUpTo({p \in TrendPrices : p # One}, MaxHistory),
     short_window : 1..2, long_window : 3..MaxHistory]

\* The calls of adjust_grid_levels the model makes: prices and levels between
\* 1.0 and 4.0, baselines of up to MaxLevels levels, factors from 1/4 to 1.
MaxLevels == 2

GridPrices == Floats(One, 4 * One)

Factors == Floats(One \div 4, One)

GridCalls ==
    [current_price : GridPrices, initial_levels : SeqUpTo(GridPrices, MaxLevels),
     compression_factor : Factors]

NoCall == fn_pc = "idle" /\ call = EmptyDict /\ returned = EmptyDict

TrendInit == fn_pc = "called" /\ call \in TrendCalls /\ returned = EmptyDict

GridInit == fn_pc = "called" /\ call \in GridCalls /\ returned = EmptyDict

\* trend = detect_trend(prices, short_window, long_window)
DetectTrend ==
    /\ fn_pc = "called"
    /\ "long_window" \in DOMAIN call
    /\ returned' = detect_trend_float(call.prices, call.short_window, call.long_window)
    /\ fn_pc' = "returned"
    /\ UNCHANGED call
    /\ UNCHANGED <<rq_vars, bot_vars, main_vars>>

\* levels = adjust_grid_levels(current_price, initial_levels, compression_factor):
\* the list comprehension and sorted() build new lists, the list passed in
\* stays as it is.
AdjustGridLevels ==
    /\ fn_pc = "called"
    /\ "compression_factor" \in DOMAIN call
    /\ returned' = adjust_grid_levels_float(call.current_price, call.initial_levels,
                                            call.compression_factor)
    /\ fn_pc' = "returned"
    /\ UNCHANGED call
    /\ UNCHANGED <<rq_vars, bot_vars, main_vars>>

(***************************************************************************)
(*                           The specifications                            *)
(***************************************************************************)

InitRequest == RequestInit /\ BotInit /\ MainInitWith(<<>>) /\ NoCall

SpecRequest == InitRequest /\ [][RequestNext]_vars

InitBot == RequestInit /\ endpoint = "account" /\ BotInit /\ MainInitWith(<<>>) /\ NoCall

SpecBot == InitBot /\ [][BotNext]_vars

InitMain == RequestInit /\ endpoint = "account" /\ BotInit /\ MainInit /\ NoCall

SpecMain == InitMain /\ [][MainNext]_vars

InitTrend ==
    RequestInit /\ endpoint = "account" /\ BotInit /\ MainInitWith(<<>>) /\ TrendInit

SpecTrend == InitTrend /\ [][DetectTrend]_vars

InitGrid ==
    RequestInit /\ endpoint = "account" /\ BotInit /\ MainInitWith(<<>>) /\ GridInit

SpecGrid == InitGrid /\ [][AdjustGridLevels]_vars

(***************************************************************************)
(*                    Claims about make_request (SpecRequest)              *)
(***************************************************************************)

\* Every request of the call so far was answered with HTTP 503.
Only503 == rq_log # <<>> /\ \A i \in DOMAIN rq_log : rq_log[i] = 503

\* A retryable answer: a transport failure or a status of the force list;
\* LastRetryable: the request transmitted last got such an answer.
Retryable(answer) == answer = TransportFailure \/ answer \in status_forcelist

LastRetryable == rq_log # <<>> /\ Retryable(rq_log[Len(rq_log)])

C8_AtMostOneOrderCreate == endpoint = "order_create" => rq_sent <= 1

\* C8 amended: order_create is re-sent like every other POST: after a
\* retryable status or a transport failure the call only ends once the budget
\* is spent, so one place_order call transmits between 1 and MAX_RETRIES + 1 = 6
\* order_create requests.
C8_OrderCreateResent ==
    endpoint = "order_create" =>
        /\ rq_sent <= MAX_RETRIES + 1
        /\ rq_pc = "done" => rq_sent >= 1
        /\ (rq_pc = "done" /\ LastRetryable) => rq_sent = MAX_RETRIES + 1
        /\ \A i \in 1..(Len(rq_log) - 1) : Retryable(rq_log[i])

\* C8 witness: an order placement that was accepted on its second
\* transmission, after a retryable answer to the first.
C8_Witness ==
    /\ endpoint = "order_create" /\ rq_pc = "done" /\ rq_result = "body"
    /\ rq_sent = 2 /\ rq_log[1] \in status_forcelist

\* C9 as stated: make_request returns the parsed body exactly when the final
\* status is 2xx and the body's success member is true, returns None in every
\* other case and raises nothing.
C9_BodyIffSuccess ==
    rq_pc = "done" =>
        /\ rq_result # "raised"
        /\ (rq_result = "body") <=>
              /\ rq_status >= 200 /\ rq_status < 300
              /\ rq_body.json = "object"
              /\ Get(rq_body.value, "success", FALSE) = TRUE

(***************************************************************************)
(*                     Claims about trading_bot (SpecBot)                  *)
(***************************************************************************)

\* The largest member of a non-empty set of numbers.
MaxOf(S) == CHOOSE x \in S : \A y \in S : y <= x

\* This run has placed its sell order.
SellPlaced == \E i \in DOMAIN bot_orders : bot_orders[i].action = "sell"

C7_SellNeedsReportedPrice == SellPlaced => poll_ok

\* The status the last poll of the buy order reported ("" before any poll
\* and when the call failed).
BuyOrderStatus == Get(buy_order, "status", "")

\* C12 as stated, for the wait of lines 186-191: the wait for the buy order
\* to fill ends once the order has been cancelled, so after a poll that
\* reported the order as canceled trading_bot is no longer waiting.
C12_WaitEndsWhenCancelled == bot_pc = "wait_fill" => BuyOrderStatus # "canceled"

\* The place_order calls of this run with the given action.
OrdersOf(action) == {i \in DOMAIN bot_orders : bot_orders[i].action = action}

C2_TrailingStopNeverFalls ==
    (cycle_start.trailing_stop # None /\ trailing_stop # None)
        => trailing_stop >= cycle_start.trailing_stop

\* C3 as stated: when the trailing-stop block runs with a position held and
\* the fetched price is at or below (1 - TRAILING_STOP_PERCENT) times the
\* highest price fetched since the position was entered, it sells the whole
\* DASH balance and clears trailing_stop and last_buy_price.  The statement is
\* taken for the cycles that start with the trailing stop already set and in
\* which place_order does not raise.
C3_TrailingStopExit ==
    [][ ( /\ pc = "trail" /\ pc' = "grid_sell"
          /\ Truthy(last_buy_price) /\ dash_balance > BALANCE_THRESHOLD
          /\ trailing_stop # None
          /\ current_price * Unit <= (Unit - TRAILING_STOP_PERCENT) * entry_high )
        => ( /\ trailing_stop' = None /\ last_buy_price' = None
             /\ Len(placed') = Len(placed) + 1
             /\ placed'[Len(placed')].type = "sell"
             /\ placed'[Len(placed')].amount = Frac(dash_balance, 1) ) ]_vars

\* C5 as stated: no buy is placed in a cycle that started with last_buy_price
\* set.  (Only the placements that reached the exchange are counted.)
C5_BuyOnlyFromIdle ==
    \A i \in DOMAIN placed :
        (placed[i].type = "buy" /\ ~placed[i].raised)
            => cycle_start.last_buy_price = None

\* C6 as stated: a place_order call that returns a failure (a status other
\* than 200, or a body without success) leaves last_buy_price as it was.
C6_RejectedOrderKeepsState ==
    [][ ( /\ Len(placed') = Len(placed) + 1
          /\ ~placed'[Len(placed')].accepted
          /\ ~placed'[Len(placed')].raised )
        => last_buy_price' = last_buy_price ]_vars

\* C10 as stated: when lines 179-183 have run, get_balances has returned the
\* mapping under "balances" of a successful account reply, and eur_balance and
\* dash_balance are the totals the exchange reported; for a failed reply it
\* has returned the empty mapping.
C10_BalancesPayload ==
    pc = "buy" =>
        LET body == account_reply.body.value IN
        IF Accepted(account_reply)
        THEN "balances" \in DOMAIN body =>
                /\ balances = body.balances
                /\ eur_balance = body.balances.EUR.total
                /\ dash_balance = body.balances.DASH.total
        ELSE balances = EmptyDict

\* The sanity band of the scenario the specification gives for the guard:
\* prices from 20 to 40 EUR.  main holds no such band.
SanityBandMin == 20 * Unit

SanityBandMax == 40 * Unit

OutOfBand(price) == price # None /\ (price < SanityBandMin \/ price > SanityBandMax)

\* This cycle has sent its account request: the loop is past line 179, at the
\* buy, the trailing stop, the grid sell or the sleep that ends the cycle.
BalancesRequested == pc \in {"buy", "trail", "grid_sell", "sleep"}

\* C11 as stated: a cycle whose fetched price lies outside the band [20, 40]
\* is skipped: it makes no balance request and no order request.
C11_OutOfBandCycleSkipped ==
    OutOfBand(current_price) => (~BalancesRequested /\ placed = <<>>)

\* C14: no exception raised inside a cycle leaves main: the loop is always at
\* one of its positions, never terminated by an exception, and from the
\* handler of lines 214-217 the next cycle starts (as long as the model has
\* cycles left to run).
C14_CycleFailureCaught ==
    /\ pc \in {"fetch_price", "sleep_retry", "fetch_balances", "buy", "trail",
               "grid_sell", "sleep", "except"}
    /\ (pc = "except" /\ cycles < MaxCycles) => ENABLED FetchPrice

\* C14 witness: a cycle ran to its end after an earlier cycle had fetched the
\* price 0.0, which makes that cycle raise (ZeroDivisionError in the sizing of
\* line 183 at the latest).
C14_Witness ==
    /\ pc = "sleep"
    /\ \E i \in 1..(Len(fetched) - 1) : fetched[i] = 0

\* The pair limits of the specification's sizing scenario: minAmount 0.0001
\* DASH (a tenth of a thousandth) and minValue 0.5 EUR.  main fetches no limits.
PairMinAmount == Frac(1, 10)

PairMinValue == Unit \div 2

\* max(minAmount, minValue / price), in thousandths of DASH.
MinRequired(price) == FracMax(PairMinAmount, Frac(PairMinValue * Unit, price))

\* C15 as stated: the amount of every buy order placed is at least
\* max(minAmount, minValue / price) and at most balance / price.  (Only the
\* placements that reached the exchange are counted.)
C15_SizingBounds ==
    \A i \in DOMAIN placed :
        (placed[i].type = "buy" /\ ~placed[i].raised) =>
            /\ FracLeq(MinRequired(placed[i].price), placed[i].amount)
            /\ FracLeq(placed[i].amount, Frac(eur_balance * Unit, placed[i].price))

\* The number of entries the history must hold after n successful fetches.
Kept == IF Len(fetched) < HISTORY_LIMIT THEN Len(fetched) ELSE HISTORY_LIMIT

\* C16: historical_prices never holds more than 100 entries and is always the
\* most recent min(n, 100) of the n prices get_current_price has returned so
\* far, in fetch order; a fetch that failed (None, or an exception) returned
\* no price and so adds no entry.
C16_BoundedHistory ==
    /\ Len(historical_prices) <= HISTORY_LIMIT
    /\ Len(historical_prices) = Kept
    /\ \A i \in 1..Kept : historical_prices[i] = fetched[Len(fetched) - Kept + i]

\* C16 witness: more than 100 prices were fetched, the oldest were evicted and
\* the two newest entries are the two prices fetched last.
C16_Witness ==
    /\ Len(fetched) > HISTORY_LIMIT + 1
    /\ Len(historical_prices) = HISTORY_LIMIT
    /\ historical_prices[HISTORY_LIMIT] = current_price
    /\ historical_prices[HISTORY_LIMIT - 1] # current_price
    /\ historical_prices[HISTORY_LIMIT - 1] # WarmPrice

\* The sell orders of the current cycle that reached the exchange.
SellsOfCycle == {i \in DOMAIN placed : placed[i].type = "sell" /\ ~placed[i].raised}

\* C19 as stated: one cycle of main places at most one sell order; the
\* trailing-stop exit and the grid exit never both sell the DASH balance the
\* cycle fetched.
C19_AtMostOneSellPerCycle == Cardinality(SellsOfCycle) <= 1

(***************************************************************************)
(*        Claims about detect_trend and adjust_grid_levels (floats)        *)
(***************************************************************************)

\* The trend the claim states, from the exact means: the sums are compared
\* after cross-multiplying with the window sizes.
StatedTrend(prices, short_window, long_window) ==
    IF Len(prices) < long_window THEN "neutral"
    ELSE LET s == Sum(LastN(prices, short_window)) * long_window
             l == Sum(LastN(prices, long_window)) * short_window
         IN  IF s > l THEN "up" ELSE IF s < l THEN "down" ELSE "neutral"

\* C17 as stated: detect_trend returns 'neutral' for a history shorter than
\* long_window; otherwise 'up' when the mean of the last short_window prices
\* is greater than the mean of the last long_window prices, 'down' when it is
\* smaller, 'neutral' on a tie.
C17_TrendClassification ==
    fn_pc = "returned" =>
        returned = StatedTrend(call.prices, call.short_window, call.long_window)

\* C18 as stated: with compression factor 1 adjust_grid_levels returns the
\* baseline values sorted ascending, unchanged in value.
C18_FactorOneIsIdentity ==
    (fn_pc = "returned" /\ call.compression_factor = One) =>
        returned = SortSeq(call.initial_levels, LAMBDA a, b : a < b)

\* The float nearest to 0.9, the factor main passes.
NearestCompression == Round(9 * One, 10)

\* Some balance above BALANCE_THRESHOLD, so that the levels decide.
Funded == BALANCE_THRESHOLD + 1

\* C20 as stated: for every compression factor in (0, 1] the price is at or
\* below the adjusted image of a baseline level exactly when it is at or below
\* the level, and at or above the image exactly when it is at or above the
\* level; with the factor of main, a grid buy or a grid sell is decided from
\* the adjusted levels as it is from the baseline.
C20_CompressionKeepsDecisions ==
    fn_pc = "returned" =>
        LET price  == call.current_price
            levels == call.initial_levels
            factor == call.compression_factor
        IN  /\ \A i \in 1..Len(levels) :
                 /\ (price <= adjusted_level(price, levels[i], factor))
                        <=> (price <= levels[i])
                 /\ (price >= adjusted_level(price, levels[i], factor))
                        <=> (price >= levels[i])
            /\ factor = NearestCompression =>
                 /\ BuyLevelReached(returned, price, Funded)
                        <=> BuyLevelReached(levels, price, Funded)
                 /\ SellLevelReached(returned, price, Funded)
                        <=> SellLevelReached(levels, price, Funded)

=============================================================================
